---- MODULE Spec2Model ----
(***************************************************************************)
(* Model of src/web.py: the aiohttp signalling server.                     *)
(*                                                                         *)
(*   websocket_handler  one task per upgraded connection; a receive loop   *)
(*                      that suspends at `async for msg in ws` and at      *)
(*                      `await ws.send_str(...)`                           *)
(*   index_handler      GET /                                              *)
(*   cors_middleware    wraps every route handler                          *)
(*   app                the route table (/, /ws, static files)             *)
(*                                                                         *)
(* Text payloads are sequences of one-character strings, so that           *)
(* str.startswith is a real prefix test.  HTTP bodies are strings.         *)
(***************************************************************************)
EXTENDS Integers, Sequences, FiniteSets, TLC

\* ---------------------------------------------------------------- bounds

\* Frames that arrive, over all connections together.
MaxFrames == 3

\* Plain HTTP requests served in one behaviour.
MaxRequests == 2

\* The connections handled concurrently, numbered in the order of acceptance.
Conns == {1, 2}

\* ------------------------------------------------------------ text values

HELLO == <<"H", "E", "L", "L", "O">>

SESSION == <<"S", "E", "S", "S", "I", "O", "N">>

SESSION_OK == <<"S", "E", "S", "S", "I", "O", "N", "_", "O", "K">>

\* Payloads a client may send: HELLO and SESSION with a suffix, the empty
\* payload, and a proper prefix of HELLO.
Payloads ==
    { HELLO \o <<" ", "1">>,
      SESSION \o <<"7">>,
      << >>,
      <<"H", "E", "L", "L">> }

\* startswith with its operands swapped: prefix.startswith(data).
StartsWithSwapped(data, prefix) ==
    /\ Len(prefix) >= Len(data)
    /\ SubSeq(prefix, 1, Len(data)) = data

\* str.startswith(prefix)
StartsWith(data, prefix) ==
    /\ Len(data) >= Len(prefix)
    /\ SubSeq(data, 1, Len(prefix)) = prefix

\* ------------------------------------------------------------- WS frames

TextFrame(p) == [type |-> "TEXT", data |-> p]

BinaryFrame == [type |-> "BINARY", data |-> << >>]

ClosedFrame == [type |-> "CLOSED", data |-> << >>]

ErrorFrame == [type |-> "ERROR", data |-> << >>]

Frames == {TextFrame(p) : p \in Payloads} \cup {BinaryFrame, ClosedFrame, ErrorFrame}

\* ------------------------------------------------------- HTTP primitives

NoHeaders == [h \in {} |-> ""]

\* response.headers[name] = value
SetHeader(headers, name, value) ==
    [h \in (DOMAIN headers) \cup {name} |-> IF h = name THEN value ELSE headers[h]]

\* The three header writes of websocket_handler and of cors_middleware.
CorsHeaders(headers) ==
    SetHeader(
        SetHeader(
            SetHeader(headers, "Access-Control-Allow-Origin", "*"),
            "Access-Control-Allow-Methods", "POST, GET, OPTIONS, PUT, DELETE"),
        "Access-Control-Allow-Headers", "Content-Type, Authorization")

\* A response envelope: web.Response, web.FileResponse, web.WebSocketResponse
\* or a web.HTTPException used as the response.  lateWrites counts the header
\* writes made after the envelope was committed.
Envelope(kind, status, body) ==
    [kind |-> kind, status |-> status, body |-> body,
     headers |-> NoHeaders, prepared |-> FALSE, lateWrites |-> 0]

\* The three statements `response.headers[...] = ...` run on an envelope.
WriteCors(response) ==
    [response EXCEPT !.headers = CorsHeaders(@),
                     !.lateWrites = IF response.prepared THEN @ + 3 ELSE @]

NoResponse == Envelope("None", 0, "")

\* No exception.
NoExc == [cls |-> "None", http |-> FALSE, status |-> 0, text |-> ""]

\* A web.HTTPException subclass: status and default text.
HTTPFault(cls, status, text) == [cls |-> cls, http |-> TRUE, status |-> status, text |-> text]

\* Any other exception, with its single argument.
Fault(cls, arg) == [cls |-> cls, http |-> FALSE, status |-> 0, text |-> arg]

\* Exceptions that code called by a handler may raise.
GenericFaults == {Fault("RuntimeError", "boom"), Fault("KeyError", "k")}

\* str(e): the argument, except that KeyError gives the repr of its key.
Str(e) == IF e.cls = "KeyError" THEN "'" \o e.text \o "'" ELSE e.text

Return(resp) == [kind |-> "return", resp |-> resp, exc |-> NoExc]

Raise(e) == [kind |-> "raise", resp |-> NoResponse, exc |-> e]

\* ------------------------------------------------------------------ state

VARIABLES
    staticRegistered,   \* static_path.exists() at startup: the static route is in the table
    pc,                 \* per connection: where its websocket_handler task is
    ws,                 \* per connection: the WebSocketResponse envelope (once the task is done: as cors_middleware returned it)
    wsClosed,           \* per connection: the library has closed the socket (after an error)
    inbox,              \* per connection: frames arrived at the transport, not yet received
    taken,              \* per connection: the messages the receive loop has got, in order
    sent,               \* per connection: the send_str calls made, each with the index of its frame
    acked,              \* per connection: how many send_str calls have completed
    responses           \* the requests served without an upgrade, in order

vars == <<staticRegistered, pc, ws, wsClosed, inbox, taken, sent, acked, responses>>

wsVars == <<pc, ws, wsClosed, inbox, taken, sent, acked>>

\* ---------------------------------------------------------------- requests

Methods == {"GET", "OPTIONS", "POST"}

Paths == {"/", "/ws", "/turn", "/app.js"}

\* Values of the Upgrade header ("" when the header is absent).
UpgradeValues == {"", "websocket", "WebSocket"}

Requests == [method : Methods, path : Paths, upgrade : UpgradeValues]

\* What a request finds outside the program: whether static/index.html and
\* the static file of its path exist, and the exception (if any) that library
\* code called by the handler raises.
Inputs == [indexExists : BOOLEAN, fileExists : BOOLEAN, fault : {NoExc} \cup GenericFaults]

\* str.lower() on the Upgrade values.
Lower(s) == IF s = "WebSocket" THEN "websocket" ELSE s

\* --------------------------------------------------------------- handlers

\* websocket_handler up to the upgrade: a new WebSocketResponse with the three
\* CORS headers set.
NewWebSocketResponse == WriteCors(Envelope("WebSocketResponse", 101, ""))

\* await ws.prepare(request): the handshake is refused with HTTPBadRequest when
\* the request asks for no WebSocket upgrade, may fail with any other
\* exception, and otherwise commits the envelope.
Prepare(envelope, request, fault) ==
    IF Lower(request.upgrade) # "websocket"
    THEN Raise(HTTPFault("HTTPBadRequest", 400, "400: Bad Request"))
    ELSE IF fault # NoExc
         THEN Raise(fault)
         ELSE Return([envelope EXCEPT !.prepared = TRUE])

\* WebsocketUpgrade with `await ws.prepare(request)` inside the try block: the
\* exception is caught and the handler returns ws.
WebsocketUpgradeInsideTry(request, in) ==
    IF Prepare(NewWebSocketResponse, request, in.fault).kind = "raise"
    THEN Return(NewWebSocketResponse)
    ELSE Prepare(NewWebSocketResponse, request, in.fault)

\* websocket_handler from its entry to the start of the receive loop; a raise
\* here is outside the try block.
WebsocketUpgrade(request, in) == Prepare(NewWebSocketResponse, request, in.fault)

\* index_handler, where it does not delegate to websocket_handler.
IndexPage(in) ==
    IF in.indexExists
    THEN Return(Envelope("FileResponse", 200, "index.html"))
    ELSE Return(Envelope("Response", 200, "Selkies Signalling Server Running"))

\* index_handler comparing the Upgrade header without lower().
IndexHandlerCaseSensitive(request, in) ==
    IF request.upgrade = "websocket"
    THEN WebsocketUpgrade(request, in)
    ELSE IndexPage(in)

\* index_handler
IndexHandler(request, in) ==
    IF Lower(request.upgrade) = "websocket"
    THEN WebsocketUpgrade(request, in)
    ELSE IndexPage(in)

\* The static route's handler (app.router.add_static).
StaticHandler(request, in) ==
    IF in.fault # NoExc
    THEN Raise(in.fault)
    ELSE IF in.fileExists
         THEN Return(Envelope("FileResponse", 200, request.path))
         ELSE Raise(HTTPFault("HTTPNotFound", 404, "404: Not Found"))

\* The route table: GET / and GET /ws, then the static prefix / when the
\* static directory existed at startup.  Resources are tried in the order they
\* were added; a path that matches only with another method is a 405.
Route(request) ==
    IF request.path = "/" /\ request.method = "GET" THEN "index_handler"
    ELSE IF request.path = "/ws" /\ request.method = "GET" THEN "websocket_handler"
    ELSE IF staticRegistered /\ request.method = "GET" THEN "static"
    ELSE IF request.path \in {"/", "/ws"} \/ staticRegistered THEN "method_not_allowed"
    ELSE "not_found"

\* await handler(request), up to the point where the handler returns, raises
\* or has upgraded the connection.
HandlerOutcome(request, in) ==
    CASE Route(request) = "index_handler" -> IndexHandler(request, in)
      [] Route(request) = "websocket_handler" -> WebsocketUpgrade(request, in)
      [] Route(request) = "static" -> StaticHandler(request, in)
      [] Route(request) = "method_not_allowed" ->
            Raise(HTTPFault("HTTPMethodNotAllowed", 405, "405: Method Not Allowed"))
      [] OTHER -> Raise(HTTPFault("HTTPNotFound", 404, "404: Not Found"))

\* The handler has upgraded the connection and enters its receive loop.
Upgraded(outcome) == outcome.kind = "return" /\ outcome.resp.kind = "WebSocketResponse"

\* ------------------------------------------------------------- middleware

\* `response = e` for a web.HTTPException: the fault itself is the response.
FaultResponse(e) == Envelope("HTTPException", e.status, e.text)

\* CorsTry without the OPTIONS short-circuit.
CorsTryNoPreflight(request, outcome) ==
    IF outcome.kind = "return"
    THEN [response |-> outcome.resp, invoked |-> TRUE, propagated |-> NoExc]
    ELSE IF outcome.exc.http
         THEN [response |-> FaultResponse(outcome.exc), invoked |-> TRUE,
               propagated |-> NoExc]
         ELSE [response |-> Envelope("Response", 500, Str(outcome.exc)),
               invoked |-> TRUE, propagated |-> NoExc]

\* CorsTry without the `except Exception` clause: any other exception leaves
\* the middleware.
CorsTryNoCatchAll(request, outcome) ==
    IF request.method = "OPTIONS"
    THEN [response |-> Envelope("Response", 200, ""), invoked |-> FALSE, propagated |-> NoExc]
    ELSE IF outcome.kind = "return"
         THEN [response |-> outcome.resp, invoked |-> TRUE, propagated |-> NoExc]
         ELSE IF outcome.exc.http
              THEN [response |-> FaultResponse(outcome.exc), invoked |-> TRUE,
                    propagated |-> NoExc]
              ELSE [response |-> NoResponse, invoked |-> TRUE, propagated |-> outcome.exc]

\* CorsTry without the `except web.HTTPException` clause: the fault is caught
\* by `except Exception`.
CorsTryNoHttpClause(request, outcome) ==
    IF request.method = "OPTIONS"
    THEN [response |-> Envelope("Response", 200, ""), invoked |-> FALSE, propagated |-> NoExc]
    ELSE IF outcome.kind = "return"
         THEN [response |-> outcome.resp, invoked |-> TRUE, propagated |-> NoExc]
         ELSE [response |-> Envelope("Response", 500, Str(outcome.exc)),
               invoked |-> TRUE, propagated |-> NoExc]

\* The try statement of cors_middleware: the response it ends with, whether
\* the wrapped handler was awaited, and the exception that leaves it (none).
CorsTry(request, outcome) ==
    IF request.method = "OPTIONS"
    THEN [response |-> Envelope("Response", 200, ""), invoked |-> FALSE, propagated |-> NoExc]
    ELSE IF outcome.kind = "return"
         THEN [response |-> outcome.resp, invoked |-> TRUE, propagated |-> NoExc]
         ELSE IF outcome.exc.http
              THEN [response |-> FaultResponse(outcome.exc), invoked |-> TRUE,
                    propagated |-> NoExc]
              ELSE [response |-> Envelope("Response", 500, Str(outcome.exc)),
                    invoked |-> TRUE, propagated |-> NoExc]

\* CorsDecorate writing the headers on successful responses only.
CorsDecorateSuccessOnly(response) ==
    IF ~response.prepared /\ response.status < 400
    THEN WriteCors(response)
    ELSE response

\* CorsDecorate without the `if not response.prepared` guard.
CorsDecorateUnguarded(response) == WriteCors(response)

\* `if not response.prepared:` and the three header writes.
CorsDecorate(response) ==
    IF ~response.prepared
    THEN WriteCors(response)
    ELSE response

\* cors_middleware(request, handler), given what `await handler(request)` does.
CorsMiddleware(request, outcome) ==
    LET t == CorsTry(request, outcome)
    IN  IF t.propagated # NoExc
        THEN [t EXCEPT !.response = NoResponse]
        ELSE [t EXCEPT !.response = CorsDecorate(t.response)]

\* The handler was not awaited.
NotInvoked == [kind |-> "none", resp |-> NoResponse, exc |-> NoExc]

\* One served request as the log keeps it.
Served(request, outcome) ==
    LET m == CorsMiddleware(request, outcome)
    IN  [request |-> request,
         outcome |-> IF m.invoked THEN outcome ELSE NotInvoked,
         response |-> m.response,
         propagated |-> m.propagated]

\* A served request with what index_file.exists() gave, for a request routed
\* to index_handler.
Logged(request, in) ==
    LET s == Served(request, HandlerOutcome(request, in))
    IN  [request |-> s.request,
         outcome |-> s.outcome,
         response |-> s.response,
         propagated |-> s.propagated,
         indexExists |-> Route(request) = "index_handler" /\ in.indexExists]

\* ------------------------------------------------------ the receive loop

\* LoopBody with the HELLO test an equality instead of a prefix test.
LoopBodyHelloExact(msg) ==
    IF msg.type = "TEXT"
    THEN IF msg.data = HELLO
         THEN [reply |-> <<HELLO>>, break |-> FALSE]
         ELSE IF StartsWith(msg.data, SESSION)
              THEN [reply |-> <<SESSION_OK>>, break |-> FALSE]
              ELSE [reply |-> << >>, break |-> FALSE]
    ELSE IF msg.type = "CLOSED"
         THEN [reply |-> << >>, break |-> TRUE]
         ELSE [reply |-> << >>, break |-> FALSE]

\* LoopBody answering a SESSION frame with the text SESSION.
LoopBodySessionText(msg) ==
    IF msg.type = "TEXT"
    THEN IF StartsWith(msg.data, HELLO)
         THEN [reply |-> <<HELLO>>, break |-> FALSE]
         ELSE IF StartsWith(msg.data, SESSION)
              THEN [reply |-> <<SESSION>>, break |-> FALSE]
              ELSE [reply |-> << >>, break |-> FALSE]
    ELSE IF msg.type = "CLOSED"
         THEN [reply |-> << >>, break |-> TRUE]
         ELSE [reply |-> << >>, break |-> FALSE]

\* LoopBody leaving the loop on a text it does not know.
LoopBodyRejectUnknown(msg) ==
    IF msg.type = "TEXT"
    THEN IF StartsWith(msg.data, HELLO)
         THEN [reply |-> <<HELLO>>, break |-> FALSE]
         ELSE IF StartsWith(msg.data, SESSION)
              THEN [reply |-> <<SESSION_OK>>, break |-> FALSE]
              ELSE [reply |-> << >>, break |-> TRUE]
    ELSE IF msg.type = "CLOSED"
         THEN [reply |-> << >>, break |-> TRUE]
         ELSE [reply |-> << >>, break |-> FALSE]

\* LoopBody with `elif` written `if`: a HELLO frame falls through to a second
\* send_str.
LoopBodyDoubleSend(msg) ==
    IF msg.type = "TEXT"
    THEN IF StartsWith(msg.data, HELLO)
         THEN [reply |-> <<HELLO, HELLO>>, break |-> FALSE]
         ELSE IF StartsWith(msg.data, SESSION)
              THEN [reply |-> <<SESSION_OK>>, break |-> FALSE]
              ELSE [reply |-> << >>, break |-> FALSE]
    ELSE IF msg.type = "CLOSED"
         THEN [reply |-> << >>, break |-> TRUE]
         ELSE [reply |-> << >>, break |-> FALSE]

\* LoopBody without the `break` of the CLOSED branch.
LoopBodyNoBreak(msg) ==
    IF msg.type = "TEXT"
    THEN IF StartsWith(msg.data, HELLO)
         THEN [reply |-> <<HELLO>>, break |-> FALSE]
         ELSE IF StartsWith(msg.data, SESSION)
              THEN [reply |-> <<SESSION_OK>>, break |-> FALSE]
              ELSE [reply |-> << >>, break |-> FALSE]
    ELSE [reply |-> << >>, break |-> FALSE]

\* The body of `async for msg in ws`: the text it passes to send_str (at most
\* one) and whether it leaves the loop.
LoopBody(msg) ==
    IF msg.type = "TEXT"
    THEN IF StartsWith(msg.data, HELLO)
         THEN [reply |-> <<HELLO>>, break |-> FALSE]
         ELSE IF StartsWith(msg.data, SESSION)
              THEN [reply |-> <<SESSION_OK>>, break |-> FALSE]
              ELSE [reply |-> << >>, break |-> FALSE]
    ELSE IF msg.type = "CLOSED"
         THEN [reply |-> << >>, break |-> TRUE]
         ELSE [reply |-> << >>, break |-> FALSE]

\* AwaitingFrame for a handler that does not await send_str.
AwaitingFrameNoAwait(t) == pc[t] \in {"recv", "send"}

\* The task is suspended at `async for msg in ws`, no write pending.
AwaitingFrame(t) == pc[t] = "recv"

\* Frames that have arrived on all connections.
Arrived == LET n(t) == Len(inbox[t]) + Len(taken[t]) IN n(1) + n(2)

\* The handler returns ws: cors_middleware gets it back from its await, goes
\* on after the try statement and returns it.
Returned(t) == [ws EXCEPT ![t] = CorsDecorate(@)]

Init ==
    /\ staticRegistered \in BOOLEAN
    /\ pc = [t \in Conns |-> "idle"]
    /\ ws = [t \in Conns |-> NoResponse]
    /\ wsClosed = [t \in Conns |-> FALSE]
    /\ inbox = [t \in Conns |-> << >>]
    /\ taken = [t \in Conns |-> << >>]
    /\ sent = [t \in Conns |-> << >>]
    /\ acked = [t \in Conns |-> 0]
    /\ responses = << >>

\* A client opens connection t: cors_middleware awaits the routed handler,
\* which sets the CORS headers, upgrades and enters the receive loop.
\* Connections are numbered in the order they are accepted.
Connect(t, request, in) ==
    /\ pc[t] = "idle"
    /\ \A u \in Conns : u < t => pc[u] # "idle"
    /\ CorsTry(request, HandlerOutcome(request, in)).invoked
    /\ Upgraded(HandlerOutcome(request, in))
    /\ pc' = [pc EXCEPT ![t] = "recv"]
    /\ ws' = [ws EXCEPT ![t] = HandlerOutcome(request, in).resp]
    /\ UNCHANGED <<staticRegistered, wsClosed, inbox, taken, sent, acked, responses>>

\* A frame (or an error or close event) reaches the transport of t.
Arrive(t, f) ==
    /\ pc[t] \in {"recv", "send"}
    /\ Arrived < MaxFrames
    /\ \A i \in 1..Len(inbox[t]) : inbox[t][i].type # "CLOSED"
    /\ inbox' = [inbox EXCEPT ![t] = Append(@, f)]
    /\ UNCHANGED <<staticRegistered, pc, ws, wsClosed, taken, sent, acked, responses>>

\* SocketClosedBy for a socket that stays open after an error.
SocketStaysOpen(msg) == FALSE

\* With this message the library has closed the socket: receive() closes it
\* before it returns an ERROR message.
SocketClosedBy(msg) == msg.type = "ERROR"

\* `async for` yields the next message and the loop body runs.
Receive(t) ==
    /\ AwaitingFrame(t)
    /\ ~wsClosed[t]
    /\ inbox[t] # << >>
    /\ LET msg == Head(inbox[t])
           n == Len(taken[t]) + 1
           b == LoopBody(msg)
       IN  /\ inbox' = [inbox EXCEPT ![t] = IF b.break THEN << >> ELSE Tail(@)]
           /\ taken' = [taken EXCEPT ![t] = Append(@, msg)]
           /\ wsClosed' = [wsClosed EXCEPT ![t] = SocketClosedBy(msg)]
           /\ sent' = [sent EXCEPT ![t] =
                          @ \o [i \in 1..Len(b.reply) |-> [n |-> n, text |-> b.reply[i]]]]
           /\ pc' = [pc EXCEPT ![t] =
                        IF b.break THEN "done"
                        ELSE IF b.reply # << >> THEN "send" ELSE "recv"]
           /\ ws' = IF b.break THEN Returned(t) ELSE ws
    /\ UNCHANGED <<staticRegistered, acked, responses>>

\* The socket is closed: receive() gives a close message, on which the
\* iteration stops, and the handler returns.
StreamEnd(t) ==
    /\ AwaitingFrame(t)
    /\ wsClosed[t]
    /\ pc' = [pc EXCEPT ![t] = "done"]
    /\ ws' = Returned(t)
    /\ inbox' = [inbox EXCEPT ![t] = << >>]
    /\ UNCHANGED <<staticRegistered, wsClosed, taken, sent, acked, responses>>

\* `await ws.send_str(...)` completes: the reply is with the transport.
SendDone(t) ==
    /\ pc[t] = "send"
    /\ acked' = [acked EXCEPT ![t] = @ + 1]
    /\ pc' = [pc EXCEPT ![t] = "recv"]
    /\ UNCHANGED <<staticRegistered, ws, wsClosed, inbox, taken, sent, responses>>

\* TransportFail with the exception ending every handler task.
TransportFailAll(t) ==
    /\ pc[t] \in {"recv", "send"}
    /\ pc' = [u \in Conns |-> IF pc[u] = "idle" THEN "idle" ELSE "done"]
    /\ ws' = [u \in Conns |-> IF pc[u] \in {"recv", "send"} THEN CorsDecorate(ws[u]) ELSE ws[u]]
    /\ inbox' = [u \in Conns |-> << >>]
    /\ UNCHANGED <<staticRegistered, wsClosed, taken, sent, acked, responses>>

\* TransportFail with the exception leaving the handler: cors_middleware
\* catches it and builds the 500 response.
TransportFailEscapes(t) ==
    /\ pc[t] \in {"recv", "send"}
    /\ pc' = [pc EXCEPT ![t] = "done"]
    /\ ws' = [ws EXCEPT ![t] = CorsDecorate(Envelope("Response", 500, "reset"))]
    /\ inbox' = [inbox EXCEPT ![t] = << >>]
    /\ UNCHANGED <<staticRegistered, wsClosed, taken, sent, acked, responses>>

\* The transport fails while the task waits for a frame or for a write:
\* the exception is caught by `except Exception` and the handler returns.
TransportFail(t) ==
    /\ pc[t] \in {"recv", "send"}
    /\ pc' = [pc EXCEPT ![t] = "done"]
    /\ ws' = Returned(t)
    /\ inbox' = [inbox EXCEPT ![t] = << >>]
    /\ UNCHANGED <<staticRegistered, wsClosed, taken, sent, acked, responses>>

\* The task of t is cancelled while it is suspended in the loop, waiting for
\* a frame or for a write: asyncio.CancelledError is raised at the await.  It
\* is a BaseException and no Exception, so `except Exception` catches it
\* neither in websocket_handler nor in cors_middleware: the task ends and no
\* handler returns.  A task whose socket the library has closed is not
\* suspended before its loop ends.
Cancel(t) ==
    /\ pc[t] = "send" \/ (pc[t] = "recv" /\ ~wsClosed[t])
    /\ pc' = [pc EXCEPT ![t] = "cancelled"]
    /\ inbox' = [inbox EXCEPT ![t] = << >>]
    /\ UNCHANGED <<staticRegistered, ws, wsClosed, taken, sent, acked, responses>>

\* A request that is served without an upgrade.
HttpRequest(request, in) ==
    /\ Len(responses) < MaxRequests
    /\ ~(CorsTry(request, HandlerOutcome(request, in)).invoked
            /\ Upgraded(HandlerOutcome(request, in)))
    /\ responses' = Append(responses, Logged(request, in))
    /\ UNCHANGED <<staticRegistered, wsVars>>

\* WebSocket connections.
Next ==
    \/ \E t \in Conns, request \in Requests, in \in Inputs : Connect(t, request, in)
    \/ \E t \in Conns, f \in Frames : Arrive(t, f)
    \/ \E t \in Conns : Receive(t)
    \/ \E t \in Conns : StreamEnd(t)
    \/ \E t \in Conns : SendDone(t)
    \/ \E t \in Conns : TransportFail(t)
    \/ \E t \in Conns : Cancel(t)

Spec == Init /\ [][Next]_vars

\* Plain HTTP requests.
NextHttp == \E request \in Requests, in \in Inputs : HttpRequest(request, in)

SpecHttp == Init /\ [][NextHttp]_vars

\* ====================================================== properties: replies

\* The send_str calls made for the i-th message the loop of t has got.
RepliesTo(t, i) == {k \in 1..Len(sent[t]) : sent[t][k].n = i}

\* The i-th message of t is a text frame whose payload starts with prefix.
TextWith(t, i, prefix) ==
    /\ taken[t][i].type = "TEXT"
    /\ StartsWith(taken[t][i].data, prefix)

\* The i-th message of t is a text frame that starts with neither prefix.
OtherText(t, i) ==
    /\ taken[t][i].type = "TEXT"
    /\ ~StartsWith(taken[t][i].data, HELLO)
    /\ ~StartsWith(taken[t][i].data, SESSION)

\* Exactly one send_str call was made for the i-th message of t, with text.
RepliedOnce(t, i, text) ==
    /\ Cardinality(RepliesTo(t, i)) = 1
    /\ \A k \in RepliesTo(t, i) : sent[t][k].text = text

\* A SESSION frame was received on t before its i-th message.
EstablishedBefore(t, i) == \E j \in 1..(i - 1) : TextWith(t, j, SESSION)

\* C1: every text frame received whose payload starts with HELLO, whatever its
\* suffix and whatever came before it, is answered by exactly one send_str
\* call, with the text HELLO.
C1_HelloAnswered ==
    \A t \in Conns : \A i \in 1..Len(taken[t]) :
        TextWith(t, i, HELLO) => RepliedOnce(t, i, HELLO)

\* C1 witness: a HELLO frame with a suffix, received after a SESSION frame,
\* has been answered and the write has completed.
C1_Witness ==
    \E t \in Conns :
        /\ Len(taken[t]) = 2
        /\ TextWith(t, 1, SESSION)
        /\ taken[t][2] = TextFrame(HELLO \o <<" ", "1">>)
        /\ RepliedOnce(t, 2, HELLO)
        /\ acked[t] = 2

\* C2: every text frame received whose payload starts with SESSION is answered
\* by exactly one send_str call, with the text SESSION_OK.
C2_SessionAnswered ==
    \A t \in Conns : \A i \in 1..Len(taken[t]) :
        TextWith(t, i, SESSION) => RepliedOnce(t, i, SESSION_OK)

\* C2 witness: a SESSION frame with a suffix, received after a HELLO frame and
\* again after that, has been answered both times.
C2_Witness ==
    \E t \in Conns :
        /\ Len(taken[t]) = 3
        /\ TextWith(t, 1, HELLO)
        /\ taken[t][2] = TextFrame(SESSION \o <<"7">>)
        /\ TextWith(t, 3, SESSION)
        /\ RepliedOnce(t, 2, SESSION_OK)
        /\ RepliedOnce(t, 3, SESSION_OK)
        /\ acked[t] = 3

Echo == <<"E", "c", "h", "o", ":", " ">>

\* C3 (as claimed): once a SESSION frame has been received, every later text
\* frame that starts with neither prefix is answered with "Echo: " followed by
\* its payload.
C3_EchoWhenEstablished ==
    \A t \in Conns : \A i \in 1..Len(taken[t]) :
        (EstablishedBefore(t, i) /\ OtherText(t, i))
            => RepliedOnce(t, i, Echo \o taken[t][i].data)

\* The protocol phase after a message, as the specification defines it.
PhaseAfter(phase, msg) ==
    IF msg.type = "TEXT" /\ StartsWith(msg.data, HELLO)
    THEN IF phase = "Unestablished" THEN "Handshaking" ELSE phase
    ELSE IF msg.type = "TEXT" /\ StartsWith(msg.data, SESSION)
         THEN "Established"
         ELSE phase

RECURSIVE Phase(_)
\* The protocol phase after a sequence of messages.
Phase(msgs) ==
    IF msgs = << >> THEN "Unestablished"
    ELSE PhaseAfter(Phase(SubSeq(msgs, 1, Len(msgs) - 1)), msgs[Len(msgs)])

PhaseRank(phase) ==
    CASE phase = "Unestablished" -> 0
      [] phase = "Handshaking" -> 1
      [] OTHER -> 2

\* C4 (as claimed): the phase never moves back, and once a connection is
\* Established HELLO is answered with HELLO, SESSION with SESSION_OK, and any
\* other text frame is echoed.
C4_MonotonicPhase ==
    \A t \in Conns : \A i \in 1..Len(taken[t]) :
        /\ PhaseRank(Phase(SubSeq(taken[t], 1, i - 1)))
              <= PhaseRank(Phase(SubSeq(taken[t], 1, i)))
        /\ Phase(SubSeq(taken[t], 1, i - 1)) = "Established" =>
              /\ Phase(SubSeq(taken[t], 1, i)) = "Established"
              /\ TextWith(t, i, HELLO) => RepliedOnce(t, i, HELLO)
              /\ TextWith(t, i, SESSION) => RepliedOnce(t, i, SESSION_OK)
              /\ OtherText(t, i) => RepliedOnce(t, i, Echo \o taken[t][i].data)

\* =================================================== properties: middleware

\* The envelope carries the three CORS headers with their exact values.
HasCors(response) ==
    /\ {"Access-Control-Allow-Origin", "Access-Control-Allow-Methods",
        "Access-Control-Allow-Headers"} \subseteq DOMAIN response.headers
    /\ response.headers["Access-Control-Allow-Origin"] = "*"
    /\ response.headers["Access-Control-Allow-Methods"] = "POST, GET, OPTIONS, PUT, DELETE"
    /\ response.headers["Access-Control-Allow-Headers"] = "Content-Type, Authorization"

\* C5: every response cors_middleware returns, other than a committed
\* WebSocket upgrade, carries the three CORS headers with their exact values:
\* a normal response, a structured HTTP fault, and the 500 made from any
\* other exception.
C5_CorsOnEveryResponse ==
    \A i \in 1..Len(responses) :
        ~(responses[i].response.kind = "WebSocketResponse" /\ responses[i].response.prepared)
            => /\ responses[i].response.kind # "None"
               /\ HasCors(responses[i].response)

\* C5 witness: a 404 fault and a 500 from an unexpected exception have both
\* been returned.
C5_Witness ==
    /\ Len(responses) = 2
    /\ responses[1].response.kind = "HTTPException"
    /\ responses[1].response.status = 404
    /\ responses[2].response.status = 500
    /\ responses[2].outcome.exc \in GenericFaults

\* C6: an OPTIONS request to any path gets status 200, an empty body and the
\* three CORS headers, and the routed handler is not awaited for it.
C6_OptionsPreflight ==
    \A i \in 1..Len(responses) :
        responses[i].request.method = "OPTIONS" =>
            /\ responses[i].response.status = 200
            /\ responses[i].response.body = ""
            /\ HasCors(responses[i].response)
            /\ responses[i].outcome = NotInvoked
            /\ responses[i].propagated = NoExc

\* C6 witness: OPTIONS requests to /ws (with an Upgrade header) and to /turn
\* have been answered.
C6_Witness ==
    /\ Len(responses) = 2
    /\ responses[1].request = [method |-> "OPTIONS", path |-> "/ws", upgrade |-> "websocket"]
    /\ responses[2].request = [method |-> "OPTIONS", path |-> "/turn", upgrade |-> ""]
    /\ responses[2].response.status = 200

\* C7 (as claimed): GET /turn is answered with status 200 and the JSON body
\* {"iceServers": []}.
C7_TurnStub ==
    \A i \in 1..Len(responses) :
        (responses[i].request.method = "GET" /\ responses[i].request.path = "/turn") =>
            /\ responses[i].response.status = 200
            /\ responses[i].response.kind = "Response"
            /\ responses[i].response.body = "{\"iceServers\": []}"

\* C9: when the awaited handler raises an exception that is no HTTPException,
\* the response has status 500 and str(e) as its body, nothing propagates out
\* of cors_middleware, and the request served next gets a response too.
C9_UnexpectedFault ==
    \A i \in 1..Len(responses) :
        (responses[i].outcome.kind = "raise" /\ ~responses[i].outcome.exc.http) =>
            /\ responses[i].response.kind = "Response"
            /\ responses[i].response.status = 500
            /\ responses[i].response.body = Str(responses[i].outcome.exc)
            /\ responses[i].propagated = NoExc
            /\ i < Len(responses) =>
                  /\ responses[i + 1].propagated = NoExc
                  /\ responses[i + 1].response.kind # "None"
                  /\ responses[i + 1].response.status \in {200, 400, 404, 405, 500}

\* C9 witness: a KeyError raised under the static handler became a 500 with
\* the repr of the key as its body, and the next request, GET / without an
\* upgrade, got its 200.
C9_Witness ==
    /\ Len(responses) = 2
    /\ responses[1].request = [method |-> "GET", path |-> "/app.js", upgrade |-> ""]
    /\ responses[1].outcome.exc = Fault("KeyError", "k")
    /\ responses[1].response.status = 500
    /\ responses[1].response.body = "'k'"
    /\ responses[2].request = [method |-> "GET", path |-> "/", upgrade |-> ""]
    /\ responses[2].response.status = 200

\* ================================================= properties: concurrency

\* Everything connection t owns.
ConnState(t) == <<pc[t], ws[t], wsClosed[t], inbox[t], taken[t], sent[t], acked[t]>>

RECURSIVE RepliesAlone(_)
\* The send_str calls of a handler that gets msgs on a connection of its own.
RepliesAlone(msgs) ==
    IF msgs = << >> THEN << >>
    ELSE LET n == Len(msgs)
             reply == LoopBody(msgs[n]).reply
         IN  RepliesAlone(SubSeq(msgs, 1, n - 1))
                \o [i \in 1..Len(reply) |-> [n |-> n, text |-> reply[i]]]

\* C8: a step of one connection, its close or the failure of its transport
\* included, changes nothing the other connection owns, so the other's task
\* is not ended with it; and the replies of every connection are those its
\* own frames would get on a connection running alone.
C8_ConnectionsIndependent ==
    /\ [](\A d \in Conns : sent[d] = RepliesAlone(taken[d]))
    /\ [][\A c \in Conns :
            ConnState(c)' # ConnState(c) =>
                \A d \in Conns \ {c} : ConnState(d)' = ConnState(d)]_vars

\* C8 witness: the transport of connection 1 failed during the write of its
\* reply, and connection 2 is still in its loop with two replies written.
C8_Witness ==
    /\ pc[1] = "done"
    /\ Len(sent[1]) = 1
    /\ acked[1] = 0
    /\ pc[2] = "recv"
    /\ Len(taken[2]) = 2
    /\ acked[2] = 2

\* C10: frames are received in the order they arrived, a frame is received
\* only when every earlier reply has been handed to the transport, at most
\* one write is pending per connection, and the replies are in the order of
\* the frames they answer.
C10_OrderedPerConnection ==
    /\ [](\A t \in Conns :
            /\ Len(sent[t]) - acked[t] \in {0, 1}
            /\ pc[t] = "send" => Len(sent[t]) - acked[t] = 1
            /\ pc[t] = "recv" => Len(sent[t]) = acked[t]
            /\ \A k \in 1..Len(sent[t]) :
                  /\ sent[t][k].n \in 1..Len(taken[t])
                  /\ <<sent[t][k].text>> = LoopBody(taken[t][sent[t][k].n]).reply
                  /\ \A l \in 1..(k - 1) : sent[t][l].n < sent[t][k].n)
    /\ [][\A t \in Conns :
            taken'[t] # taken[t] =>
                /\ inbox[t] # << >>
                /\ taken'[t] = Append(taken[t], Head(inbox[t]))
                /\ Len(sent[t]) = acked[t]]_vars

\* C10 witness: three frames were received on one connection;
\* the first and the third were answered, in that order, the second was not.
C10_Witness ==
    \E t \in Conns :
        /\ Len(taken[t]) = 3
        /\ TextWith(t, 1, HELLO)
        /\ OtherText(t, 2)
        /\ TextWith(t, 3, SESSION)
        /\ Len(sent[t]) = 2
        /\ sent[t][1].n = 1
        /\ sent[t][2].n = 3
        /\ acked[t] = 2

\* ====================================================== properties: routing

\* Upgrade header values that ask for a WebSocket, in any letter case.
AsksWebSocket == {"websocket", "WebSocket"}

\* C11: GET / goes to the connection session exactly when its Upgrade header
\* is "websocket" in any letter case, and is otherwise answered with
\* index.html if that file exists, else with the banner; GET /ws always goes to
\* the connection session.  A connection is opened exactly for the GET / and
\* GET /ws requests that ask for the upgrade and whose upgrade succeeds; of the
\* requests handed to the session, only those whose upgrade fails get a plain
\* response, which is the upgrade's fault and never a page.
C11_RootAndWsRouting ==
    /\ responses = << >> =>
          \A request \in Requests, in \in Inputs :
              ENABLED Connect(1, request, in) <=>
                  /\ request.method = "GET"
                  /\ request.path \in {"/", "/ws"}
                  /\ request.upgrade \in AsksWebSocket
                  /\ in.fault = NoExc
    /\ \A i \in 1..Len(responses) :
          LET e == responses[i]
          IN  e.request.method = "GET" =>
                /\ (e.request.path = "/" /\ e.request.upgrade \notin AsksWebSocket) =>
                      /\ e.outcome.kind = "return"
                      /\ e.response.status = 200
                      /\ e.indexExists =>
                            /\ e.response.kind = "FileResponse"
                            /\ e.response.body = "index.html"
                      /\ ~e.indexExists =>
                            /\ e.response.kind = "Response"
                            /\ e.response.body = "Selkies Signalling Server Running"
                /\ (e.request.path = "/" /\ e.request.upgrade \in AsksWebSocket) =>
                      /\ e.outcome.kind = "raise"
                      /\ e.outcome.exc \in GenericFaults
                /\ e.request.path = "/ws" =>
                      /\ e.outcome.kind = "raise"
                      /\ e.request.upgrade \notin AsksWebSocket =>
                            e.outcome.exc.cls = "HTTPBadRequest"
                      /\ e.request.upgrade \in AsksWebSocket =>
                            e.outcome.exc \in GenericFaults

\* C11 witness: GET / with "Upgrade: WebSocket" went to the session, whose
\* upgrade failed, and GET / without the header got index.html.
C11_Witness ==
    /\ Len(responses) = 2
    /\ responses[1].request = [method |-> "GET", path |-> "/", upgrade |-> "WebSocket"]
    /\ responses[1].outcome.exc = Fault("RuntimeError", "boom")
    /\ responses[2].request = [method |-> "GET", path |-> "/", upgrade |-> ""]
    /\ responses[2].indexExists
    /\ responses[2].response.kind = "FileResponse"

\* ============================================== properties: end of the loop

C13_CloseEndsLoop ==
    /\ [](\A t \in Conns : \A i \in 1..Len(taken[t]) :
            taken[t][i].type = "CLOSED" =>
                /\ i = Len(taken[t])
                /\ pc[t] = "done"
                /\ \A k \in 1..Len(sent[t]) : sent[t][k].n < i)
    /\ [][\A t \in Conns :
            pc[t] = "done" =>
                /\ pc'[t] = "done"
                /\ taken'[t] = taken[t]
                /\ sent'[t] = sent[t]
                /\ acked'[t] = acked[t]]_vars

\* C13 witness: after an answered SESSION the loop got the close message and
\* the handler has returned its committed envelope.
C13_Witness ==
    \E t \in Conns :
        /\ Len(taken[t]) = 2
        /\ TextWith(t, 1, SESSION)
        /\ taken[t][2] = ClosedFrame
        /\ Len(sent[t]) = 1
        /\ acked[t] = 1
        /\ pc[t] = "done"
        /\ ws[t].prepared

\* ======================================== properties: frames without a reply

\* The message the loop of t gets in this step, when it gets one.
Getting(t) == taken'[t] # taken[t] /\ inbox[t] # << >>

\* C14: a text frame that starts with neither prefix, received before any
\* SESSION frame, gets no reply, leaves the phase as it was and leaves the
\* task in its loop waiting for the next frame; HELLO and SESSION frames
\* received after it are answered as always.
C14_UnknownBeforeEstablished ==
    /\ [](\A t \in Conns : \A i \in 1..Len(taken[t]) :
            (OtherText(t, i) /\ ~EstablishedBefore(t, i)) =>
                /\ RepliesTo(t, i) = {}
                /\ Phase(SubSeq(taken[t], 1, i)) = Phase(SubSeq(taken[t], 1, i - 1))
                /\ \A j \in (i + 1)..Len(taken[t]) :
                      /\ TextWith(t, j, HELLO) => RepliedOnce(t, j, HELLO)
                      /\ TextWith(t, j, SESSION) => RepliedOnce(t, j, SESSION_OK))
    /\ [][\A t \in Conns :
            (/\ Getting(t)
             /\ Head(inbox[t]).type = "TEXT"
             /\ ~StartsWith(Head(inbox[t]).data, HELLO)
             /\ ~StartsWith(Head(inbox[t]).data, SESSION)
             /\ ~EstablishedBefore(t, Len(taken[t]) + 1)) =>
                /\ pc'[t] = "recv"
                /\ ~wsClosed'[t]
                /\ sent'[t] = sent[t]]_vars

\* C14 witness: a connection got HELL first, then HELLO and SESSION frames,
\* and both of these were answered.
C14_Witness ==
    \E t \in Conns :
        /\ Len(taken[t]) = 3
        /\ taken[t][1] = TextFrame(<<"H", "E", "L", "L">>)
        /\ RepliedOnce(t, 2, HELLO)
        /\ RepliedOnce(t, 3, SESSION_OK)
        /\ acked[t] = 2

\* C15: a text frame with an empty payload gets no reply, before a SESSION
\* frame and after one, and leaves the task in its loop waiting for the next
\* frame.
C15_EmptyPayloadDiscarded ==
    /\ [](\A t \in Conns : \A i \in 1..Len(taken[t]) :
            taken[t][i] = TextFrame(<< >>) => RepliesTo(t, i) = {})
    /\ [][\A t \in Conns :
            (Getting(t) /\ Head(inbox[t]) = TextFrame(<< >>)) =>
                /\ pc'[t] = "recv"
                /\ ~wsClosed'[t]
                /\ sent'[t] = sent[t]]_vars

\* C15 witness: empty frames were received before and after a SESSION frame;
\* only the SESSION frame was answered and the task waits for the next frame.
C15_Witness ==
    \E t \in Conns :
        /\ taken[t] = <<TextFrame(<< >>), TextFrame(SESSION \o <<"7">>), TextFrame(<< >>)>>
        /\ Len(sent[t]) = 1
        /\ acked[t] = 1
        /\ pc[t] = "recv"

\* C19: no frame gets more than one send_str call; a message that is not a
\* text frame gets none; a message that is neither text, close nor error
\* leaves the task in its loop; and a connection never has more send_str
\* calls than text frames received.
C19_AtMostOneReply ==
    /\ [](\A t \in Conns :
            /\ \A i \in 1..Len(taken[t]) :
                  /\ Cardinality(RepliesTo(t, i)) <= 1
                  /\ taken[t][i].type # "TEXT" => RepliesTo(t, i) = {}
            /\ Len(sent[t]) <= Cardinality({i \in 1..Len(taken[t]) : taken[t][i].type = "TEXT"}))
    /\ [][\A t \in Conns :
            (Getting(t) /\ Head(inbox[t]).type \notin {"TEXT", "CLOSED", "ERROR"}) =>
                /\ pc'[t] = "recv"
                /\ ~wsClosed'[t]
                /\ sent'[t] = sent[t]]_vars

\* C19 witness: binary frames were received before and after a HELLO frame;
\* one send_str call was made and the task waits for the next frame.
C19_Witness ==
    \E t \in Conns :
        /\ Len(taken[t]) = 3
        /\ taken[t][1] = BinaryFrame
        /\ TextWith(t, 2, HELLO)
        /\ taken[t][3] = BinaryFrame
        /\ Len(sent[t]) = 1
        /\ pc[t] = "recv"

\* ================================== properties: headers and fault responses

\* C16: no header is written to a committed envelope.  The envelope of an
\* open or ended connection is committed, carries the three CORS headers and
\* has had no header written after prepare(); cors_middleware returns it as it
\* is, when the handler returns.  For every request, cors_middleware writes
\* the three headers on the response it is about to return exactly when that
\* response is not committed (the middleware reads nothing of a connection, so
\* this is stated where none is open).
C16_NoWriteAfterPrepare ==
    /\ [](\A t \in Conns :
            pc[t] # "idle" =>
                /\ ws[t].prepared
                /\ HasCors(ws[t])
                /\ ws[t].lateWrites = 0
                /\ CorsDecorate(ws[t]) = ws[t])
    /\ []((\A t \in Conns : pc[t] = "idle") =>
            \A request \in Requests, in \in Inputs :
                LET r == CorsTry(request, HandlerOutcome(request, in)).response
                    m == CorsMiddleware(request, HandlerOutcome(request, in)).response
                IN  /\ m.lateWrites = 0
                    /\ IF r.prepared
                       THEN m = r
                       ELSE m # r /\ m = [r EXCEPT !.headers = CorsHeaders(@)])
    /\ [][\A t \in Conns :
            (pc[t] # "idle" /\ pc'[t] # pc[t]) => ws'[t] = ws[t]]_vars

\* C16 witness: a handler has answered a frame and returned, and its envelope
\* has the headers and no write after prepare().
C16_Witness ==
    \E t \in Conns :
        /\ pc[t] = "done"
        /\ acked[t] = 1
        /\ ws[t].prepared
        /\ HasCors(ws[t])
        /\ ws[t].lateWrites = 0

\* C17: when the handler raises a web.HTTPException, the response of
\* cors_middleware is that exception, with its status and its text, not the
\* 500 response, and no exception leaves the middleware.
C17_HttpFaultPreserved ==
    \A i \in 1..Len(responses) :
        (responses[i].outcome.kind = "raise" /\ responses[i].outcome.exc.http) =>
            /\ responses[i].response.kind = "HTTPException"
            /\ responses[i].response.status = responses[i].outcome.exc.status
            /\ responses[i].response.body = responses[i].outcome.exc.text
            /\ responses[i].response.status # 500
            /\ responses[i].propagated = NoExc

\* C17 witness: a 405 and a 404 were served.
C17_Witness ==
    /\ Len(responses) = 2
    /\ responses[1].outcome.exc.cls = "HTTPMethodNotAllowed"
    /\ responses[1].response.status = 405
    /\ responses[2].outcome.exc.cls = "HTTPNotFound"
    /\ responses[2].response.status = 404

\* The request is one that reaches websocket_handler.
Delegated(request) ==
    \/ Route(request) = "websocket_handler"
    \/ Route(request) = "index_handler" /\ Lower(request.upgrade) = "websocket"

\* C20: when prepare() raises, no receive loop is entered for the request;
\* the exception leaves websocket_handler and cors_middleware answers with
\* the fault itself (a web.HTTPException) or with a 500 whose body is the text
\* of the exception, and the answer has the three CORS headers.
C20_PrepareFailure ==
    /\ responses = << >> =>
          \A request \in Requests, in \in Inputs :
              (/\ Delegated(request)
               /\ Prepare(NewWebSocketResponse, request, in.fault).kind = "raise") =>
                  /\ ~ENABLED Connect(1, request, in)
                  /\ ENABLED HttpRequest(request, in)
    /\ \A i \in 1..Len(responses) :
          Delegated(responses[i].request) =>
              /\ responses[i].outcome.kind = "raise"
              /\ responses[i].propagated = NoExc
              /\ HasCors(responses[i].response)
              /\ ~responses[i].response.prepared
              /\ responses[i].response.kind =
                    IF responses[i].outcome.exc.http THEN "HTTPException" ELSE "Response"
              /\ responses[i].response.status =
                    IF responses[i].outcome.exc.http
                    THEN responses[i].outcome.exc.status ELSE 500
              /\ responses[i].response.body =
                    IF responses[i].outcome.exc.http
                    THEN responses[i].outcome.exc.text ELSE Str(responses[i].outcome.exc)

\* C20 witness: GET /ws without an Upgrade header was refused with 400, and
\* an upgrade on / failed in prepare() with a RuntimeError and got the 500.
C20_Witness ==
    /\ Len(responses) = 2
    /\ responses[1].request = [method |-> "GET", path |-> "/ws", upgrade |-> ""]
    /\ responses[1].response.status = 400
    /\ responses[2].request = [method |-> "GET", path |-> "/", upgrade |-> "WebSocket"]
    /\ responses[2].outcome.exc = Fault("RuntimeError", "boom")
    /\ responses[2].response.body = "boom"
    /\ HasCors(responses[2].response)

\* ====================================== properties: exceptions in the loop

\* What a step that raises into the loop of t leaves to everything else: no
\* response is built and the other connection keeps all it owns.
RaiseContained(t) ==
    /\ responses' = responses
    /\ \A u \in Conns \ {t} : ConnState(u)' = ConnState(u)

\* C18, as claimed: whatever is raised in the receive loop, a transport
\* failure or the cancellation of the task, the handler catches it and
\* returns ws, no 500 is built for it and the other connection is untouched.
C18_AnyExceptionCaught ==
    [][\A t \in Conns :
        (TransportFail(t) \/ Cancel(t)) =>
            /\ pc'[t] = "done"
            /\ ws'[t] = ws[t]
            /\ ws'[t].kind = "WebSocketResponse"
            /\ RaiseContained(t)]_vars

\* C18, amended: an Exception raised in the receive loop (a transport
\* failure, met while waiting for a frame or for a write) is caught in the
\* handler, which returns ws, the committed 101 envelope, unchanged; no 500
\* is built and the other connection is untouched.  A cancellation is not
\* caught: the task ends without a return, and still no response is built
\* and the other connection is untouched.
C18_ExceptionCaught ==
    /\ [](/\ responses = << >>
          /\ \A t \in Conns :
                pc[t] \in {"done", "cancelled"} =>
                    /\ ws[t].kind = "WebSocketResponse"
                    /\ ws[t].status = 101
                    /\ ws[t].prepared)
    /\ [][\A t \in Conns :
            TransportFail(t) =>
                /\ pc'[t] = "done"
                /\ ws'[t] = ws[t]
                /\ RaiseContained(t)]_vars
    /\ [][\A t \in Conns :
            Cancel(t) =>
                /\ pc'[t] = "cancelled"
                /\ ws'[t] = ws[t]
                /\ RaiseContained(t)]_vars

\* C18 witness: the transport of a connection failed during its second write
\* and the handler has returned the 101 envelope, while the task of another
\* connection was cancelled.
C18_Witness ==
    \E t \in Conns, u \in Conns :
        /\ pc[t] = "done"
        /\ Len(sent[t]) = 2
        /\ acked[t] = 1
        /\ ws[t].status = 101
        /\ pc[u] = "cancelled"

====
